---- MODULE Spec2Model ----
(***************************************************************************)
(* CNC manufacturability analyzer: the six feature detectors, the          *)
(* per-face geometric-context classifier and the aggregator (CNCAnalyzer)  *)
(* that runs them, scores the result map and extracts problem regions.     *)
(*                                                                         *)
(* Units.  Lengths are integers in tenths of a millimetre, areas in        *)
(* hundredths of a square millimetre, components of unit normals in        *)
(* tenths.       Edge lengths are kept as squared lengths, so that every   *)
(* comparison the code makes on a length is an exact integer comparison.   *)
(* Scores and penalties are in tenths of a point.                          *)
(*                                                                         *)
(* The mesh is the read-only record of what the mesh library reports for   *)
(* it: per-face centroid, normal and area, the vertices (from which the    *)
(* bounds follow), the unique edge lengths, the watertight flag, the two   *)
(* volumes, and the hit distances of the rays the detectors cast.          *)
(***************************************************************************)
EXTENDS Integers, Sequences, FiniteSets, TLC

VARIABLES
    mesh,       \* self.mesh, or NoMesh before the attribute is set
    config,     \* self.config
    results,    \* self.results: detector name -> result entry
    throwing,   \* the detectors whose call raises for this run
    ret         \* the last call made and what it returned or raised

vars == <<mesh, config, results, throwing, ret>>

----------------------------------------------------------------------------
(* Generic helpers *)

Min(S) == CHOOSE x \in S : \A y \in S : x <= y

Max(S) == CHOOSE x \in S : \A y \in S : x >= y

Abs(x) == IF x < 0 THEN -x ELSE x

MinOf(a, b) == IF a <= b THEN a ELSE b

MaxOf(a, b) == IF a >= b THEN a ELSE b

Range(s) == {s[i] : i \in DOMAIN s}

RECURSIVE SumSeq(_)
SumSeq(s) == IF s = <<>> THEN 0 ELSE Head(s) + SumSeq(Tail(s))

Dot(u, v) == u[1] * v[1] + u[2] * v[2] + u[3] * v[3]

\* Python's None
None == "None"

NoMesh == [name |-> "NoMesh"]

----------------------------------------------------------------------------
(* Mesh facts *)

\* mesh.bounds: the componentwise minimum and maximum of the vertices
Bounds(m) ==
    << [a \in 1..3 |-> Min({m.vertices[i][a] : i \in DOMAIN m.vertices})],
       [a \in 1..3 |-> Max({m.vertices[i][a] : i \in DOMAIN m.vertices})] >>

NumFaces(m) == Len(m.faces)

FaceIds(m) == 1..Len(m.faces)

----------------------------------------------------------------------------
(* geometric_context.py: the per-face context classifier *)

ExternalTolerance == 20

DefaultToolDiameter == 30

ContextMinDepth == 100

ProbeOffset == 500

\* the six probe directions, in the order of test_directions
ProbeDirs == 1..6

is_surface_external(face_center, mesh_bounds, tolerance) ==
    \E axis \in 1..3 : \E bound_idx \in 1..2 :
        Abs(face_center[axis] - mesh_bounds[bound_idx][axis]) < tolerance

\* one probe direction: nothing hit, or the nearest hit within the tool
\* radius (tool_diameter / 2) of the face itself
DirectionClear(hits, tool_diameter) ==
    \/ hits = {}
    \/ 2 * Abs(Min(hits) - ProbeOffset) < tool_diameter

\* has_clear_tool_access with a failed ray cast counted as no access
has_clear_tool_access_pessimistic(face, tool_diameter) ==
    /\ ~face.probe_fails
    /\ Cardinality({d \in ProbeDirs : DirectionClear(face.probe[d], tool_diameter)}) > 0

has_clear_tool_access(face, tool_diameter) ==
    IF face.probe_fails
    THEN TRUE
    ELSE Cardinality({d \in ProbeDirs : DirectionClear(face.probe[d], tool_diameter)}) > 0

\* is_face_in_deep_pocket satisfied by one deep axis
is_face_in_deep_pocket_any_axis(face_center, mesh_bounds, min_depth) ==
    LET depths == {MinOf(face_center[axis] - mesh_bounds[1][axis],
                         mesh_bounds[2][axis] - face_center[axis]) : axis \in 1..3}
    IN  Max(depths) > min_depth

is_face_in_deep_pocket(face_center, mesh_bounds, min_depth) ==
    LET depths == {MinOf(face_center[axis] - mesh_bounds[1][axis],
                         mesh_bounds[2][axis] - face_center[axis]) : axis \in 1..3}
    IN  Min(depths) > min_depth

analyze_face_context(face_idx, m) ==
    LET face == m.faces[face_idx]
    IN  [is_external     |-> is_surface_external(face.c, Bounds(m), ExternalTolerance),
         has_tool_access |-> has_clear_tool_access(face, DefaultToolDiameter),
         is_deep         |-> is_face_in_deep_pocket(face.c, Bounds(m), ContextMinDepth),
         face_area       |-> face.area]

----------------------------------------------------------------------------
(* Outcome of a call: a returned value or a raised exception *)

Return(v) == [val |-> v]

Raise(msg) == [exc |-> msg]

Raised(o) == "exc" \in DOMAIN o

----------------------------------------------------------------------------
(* undercut_check.py *)

\* normal[2] > 0.3, the normal in tenths
UpwardNz == 3

\* np.mean(face_centers, axis=0), to the length unit
MeshCenter(m) ==
    [a \in 1..3 |-> SumSeq([i \in FaceIds(m) |-> m.faces[i].c[a]]) \div NumFaces(m)]

\* find_undercuts with the middle of the bounding box as the mesh centre
find_undercuts_box_centre(m) ==
    LET mesh_center == [a \in 1..3 |-> (Bounds(m)[1][a] + Bounds(m)[2][a]) \div 2]
        inward(i) ==
            LET to_face == [a \in 1..3 |-> m.faces[i].c[a] - mesh_center[a]]
                nd == Dot(m.faces[i].n, to_face)
            IN  nd < 0 /\ nd * nd > 4 * Dot(to_face, to_face)
    IN  {i \in FaceIds(m) : m.faces[i].n[3] > UpwardNz /\ inward(i)}

\* alignment < -0.2, with alignment = dot(normal, to_face / (|to_face| + 1e-8)):
\* the comparison is made on the squares, the sign kept (the 1e-8 only
\* guards the division for a face at the mesh centre, where the dot is 0)
find_undercuts(m) ==
    LET mesh_center == MeshCenter(m)
        inward(i) ==
            LET to_face == [a \in 1..3 |-> m.faces[i].c[a] - mesh_center[a]]
                nd == Dot(m.faces[i].n, to_face)
            IN  nd < 0 /\ nd * nd > 4 * Dot(to_face, to_face)
    IN  {i \in FaceIds(m) : m.faces[i].n[3] > UpwardNz /\ inward(i)}

\* context_aware_undercuts over the upward faces only
context_aware_undercuts_upward(m) ==
    {face_idx \in {i \in FaceIds(m) : m.faces[i].n[3] > UpwardNz} :
        LET context == analyze_face_context(face_idx, m)
        IN  ~context.has_tool_access /\ ~context.is_external}

context_aware_undercuts(m) ==
    {face_idx \in FaceIds(m) :
        LET context == analyze_face_context(face_idx, m)
        IN  ~context.has_tool_access /\ ~context.is_external}

\* analyze_undercuts with the tiers starting at 50 and at 100 flagged faces
analyze_undercuts_inclusive(m, use_context) ==
    LET undercut_indices == IF use_context THEN context_aware_undercuts(m)
                                           ELSE find_undercuts(m)
        count == Cardinality(undercut_indices)
    IN  Return([count         |-> count,
                indices       |-> undercut_indices,
                percentage    |-> <<100 * count, NumFaces(m)>>,
                analysis_type |-> IF use_context THEN "context-aware" ELSE "basic",
                severity      |-> IF count >= 100 THEN "high"
                                  ELSE IF count >= 50 THEN "medium" ELSE "low"])

analyze_undercuts(m, use_context) ==
    LET undercut_indices == IF use_context THEN context_aware_undercuts(m)
                                           ELSE find_undercuts(m)
        count == Cardinality(undercut_indices)
    IN  IF NumFaces(m) = 0
        THEN Raise("division by zero")
        ELSE Return([count         |-> count,
                     indices       |-> undercut_indices,
                     percentage    |-> <<100 * count, NumFaces(m)>>,
                     analysis_type |-> IF use_context THEN "context-aware" ELSE "basic",
                     severity      |-> IF count > 100 THEN "high"
                                       ELSE IF count > 50 THEN "medium" ELSE "low"])

----------------------------------------------------------------------------
(* preprocess/internal_volumes_check.py *)

\* check_external_openings: more than 3 vertices within 0.1 mm of one
\* bounding plane
\* check_external_openings satisfied by three vertices on a plane
check_external_openings_from_three(m) ==
    \E axis \in 1..3 : \E b \in 1..2 :
        Cardinality({i \in DOMAIN m.vertices :
                        Abs(m.vertices[i][axis] - Bounds(m)[b][axis]) < 1}) >= 3

check_external_openings(m) ==
    \E axis \in 1..3 : \E b \in 1..2 :
        Cardinality({i \in DOMAIN m.vertices :
                        Abs(m.vertices[i][axis] - Bounds(m)[b][axis]) < 1}) > 3

\* VolumeSeverity from the volume ratio alone
VolumeSeverity_ratio_only(m, openings, cutoff10) ==
    IF 10 * m.volume < 3 * m.convex_volume THEN 2
    ELSE IF 10 * m.volume < cutoff10 * m.convex_volume THEN 1
    ELSE 0

VolumeSeverity(m, openings, cutoff10) ==
    IF openings THEN 0
    ELSE IF 10 * m.volume < 3 * m.convex_volume THEN 2
    ELSE IF 10 * m.volume < cutoff10 * m.convex_volume THEN 1
    ELSE 0

realistic_internal_volumes(m) ==
    IF ~m.is_watertight
    THEN <<0, [is_watertight |-> FALSE, actual_volume |-> 0, convex_volume |-> 0,
               volume_ratio |-> <<0, 1>>,
               error |-> "Mesh is not watertight - cannot detect internal volumes reliably"]>>
    ELSE IF m.hull_fails
    THEN <<0, [is_watertight |-> TRUE, actual_volume |-> 0, convex_volume |-> 0,
               volume_ratio |-> <<0, 1>>,
               error |-> "Error calculating volumes: hull"]>>
    ELSE <<VolumeSeverity(m, check_external_openings(m), 6),
           [is_watertight |-> TRUE, actual_volume |-> m.volume,
            convex_volume |-> m.convex_volume,
            volume_ratio |-> <<m.volume, m.convex_volume>>, error |-> None]>>

\* context_aware_internal_volumes without the watertight test
context_aware_internal_volumes_unguarded(m) ==
    LET has_openings ==
            \E axis \in 1..3 : \E b \in 1..2 :
                10 * Cardinality({i \in DOMAIN m.vertices :
                        Abs(m.vertices[i][axis] - Bounds(m)[b][axis]) < 10})
                    > Len(m.vertices)
    IN  <<VolumeSeverity(m, has_openings, 7),
          [is_watertight |-> m.is_watertight, actual_volume |-> m.volume,
           convex_volume |-> m.convex_volume,
           volume_ratio |-> <<m.volume, m.convex_volume>>,
           has_external_openings |-> has_openings, error |-> None]>>

context_aware_internal_volumes(m) ==
    IF ~m.is_watertight
    THEN <<0, [is_watertight |-> FALSE, actual_volume |-> 0, convex_volume |-> 0,
               volume_ratio |-> <<0, 1>>, has_external_openings |-> FALSE,
               error |-> "Mesh is not watertight"]>>
    ELSE IF m.hull_fails
    THEN <<0, [is_watertight |-> TRUE, actual_volume |-> 0, convex_volume |-> 0,
               volume_ratio |-> <<0, 1>>, has_external_openings |-> FALSE,
               error |-> "hull"]>>
    ELSE LET has_openings ==
                \E axis \in 1..3 : \E b \in 1..2 :
                    10 * Cardinality({i \in DOMAIN m.vertices :
                            Abs(m.vertices[i][axis] - Bounds(m)[b][axis]) < 10})
                        > Len(m.vertices)
         IN  <<VolumeSeverity(m, has_openings, 7),
               [is_watertight |-> TRUE, actual_volume |-> m.volume,
                convex_volume |-> m.convex_volume,
                volume_ratio |-> <<m.volume, m.convex_volume>>,
                has_external_openings |-> has_openings, error |-> None]>>

analyze_internal_volumes(m, use_context) ==
    LET sd == IF use_context THEN context_aware_internal_volumes(m)
                             ELSE realistic_internal_volumes(m)
        severity == sd[1]
    IN  Return([severity       |-> severity,
                data           |-> sd[2],
                analysis_type  |-> IF use_context THEN "context-aware" ELSE "realistic",
                has_problem    |-> severity > 0,
                recommendation |-> CASE severity = 0 -> "No internal volume issues"
                                     [] severity = 1 -> "Minor hollowness - verify design intent"
                                     [] severity = 2 -> "Severe internal volumes - redesign required"
                                     [] OTHER -> "Unknown"])

----------------------------------------------------------------------------
(* small_features_check.py *)

\* 0.5 mm, squared: edges at or below it are mesh tessellation
NoiseEdgeSq == 25

\* realistic_small_features comparing with the tool diameter, not the radius
realistic_small_features_diameter(m, min_tool_diameter) ==
    LET edge_lengths == m.edges_sq
        significant_edges == {i \in DOMAIN edge_lengths : edge_lengths[i] > NoiseEdgeSq}
        small_significant == {i \in significant_edges :
                                edge_lengths[i] < min_tool_diameter * min_tool_diameter}
        ns == Cardinality(significant_edges)
        nsmall == Cardinality(small_significant)
    IN  <<IF ns > 0 /\ 100 * nsmall > 20 * ns THEN 2
          ELSE IF ns > 0 /\ 100 * nsmall > 10 * ns THEN 1 ELSE 0,
          [min_tool_diameter |-> min_tool_diameter, actual_small_features |-> nsmall,
           mesh_tessellation_edges |-> Len(edge_lengths) - ns, error |-> None]>>

\* realistic_small_features with the edges of exactly 0.5 mm significant
realistic_small_features_from_half_mm(m, min_tool_diameter) ==
    LET edge_lengths == m.edges_sq
        significant_edges == {i \in DOMAIN edge_lengths : edge_lengths[i] >= NoiseEdgeSq}
        small_significant == {i \in significant_edges :
                                4 * edge_lengths[i] < min_tool_diameter * min_tool_diameter}
        ns == Cardinality(significant_edges)
        nsmall == Cardinality(small_significant)
    IN  <<IF ns > 0 /\ 100 * nsmall > 20 * ns THEN 2
          ELSE IF ns > 0 /\ 100 * nsmall > 10 * ns THEN 1 ELSE 0,
          [min_tool_diameter |-> min_tool_diameter, actual_small_features |-> nsmall,
           mesh_tessellation_edges |-> Len(edge_lengths) - ns, error |-> None]>>

\* realistic_small_features with every edge significant
realistic_small_features_no_noise_floor(m, min_tool_diameter) ==
    LET edge_lengths == m.edges_sq
        small_significant == {i \in DOMAIN edge_lengths :
                                4 * edge_lengths[i] < min_tool_diameter * min_tool_diameter}
        ns == Len(edge_lengths)
        nsmall == Cardinality(small_significant)
    IN  <<IF ns > 0 /\ 100 * nsmall > 20 * ns THEN 2
          ELSE IF ns > 0 /\ 100 * nsmall > 10 * ns THEN 1 ELSE 0,
          [min_tool_diameter |-> min_tool_diameter, actual_small_features |-> nsmall,
           mesh_tessellation_edges |-> 0, error |-> None]>>

\* edge_lengths < min_tool_diameter / 2, on squared lengths
realistic_small_features(m, min_tool_diameter) ==
    LET edge_lengths == m.edges_sq
        significant_edges == {i \in DOMAIN edge_lengths : edge_lengths[i] > NoiseEdgeSq}
        small_significant == {i \in significant_edges :
                                4 * edge_lengths[i] < min_tool_diameter * min_tool_diameter}
        ns == Cardinality(significant_edges)
        nsmall == Cardinality(small_significant)
    IN  IF ns = 0
        THEN <<0, [min_tool_diameter |-> min_tool_diameter, actual_small_features |-> 0,
                   mesh_tessellation_edges |-> 0, error |-> None]>>
        ELSE <<IF 100 * nsmall > 20 * ns THEN 2
               ELSE IF 100 * nsmall > 10 * ns THEN 1 ELSE 0,
               [min_tool_diameter |-> min_tool_diameter,
                actual_small_features |-> nsmall,
                mesh_tessellation_edges |-> Len(edge_lengths) - ns,
                small_significant_pct |-> <<100 * nsmall, ns>>,
                error |-> None]>>

analyze_small_features(m, min_tool_diameter) ==
    LET sd == realistic_small_features(m, min_tool_diameter)
        severity == sd[1]
    IN  Return([severity       |-> severity,
                data           |-> sd[2],
                analysis_type  |-> "realistic",
                has_problem    |-> severity > 0,
                recommendation |-> CASE severity = 0 -> "No small feature issues"
                                     [] severity = 1 -> "Some small features - consider tool size"
                                     [] severity = 2 -> "Many small features - may need micro-machining"
                                     [] OTHER -> "Unknown"])

----------------------------------------------------------------------------
(* preprocess/steep_walls_check.py *)

\* z_threshold = sin(pi/2 - radians(angle_threshold)) in thousandths, rounded
\* up: for a normal component nz in tenths, |nz| / 10 < z_threshold exactly
\* when 100 * |nz| < ZThreshold(angle)
ZThreshold(angle_threshold) ==
    CASE angle_threshold = 70 -> 343
      [] angle_threshold = 80 -> 174
      [] angle_threshold = 85 -> 88

SteepFaces(m, angle_threshold) ==
    {i \in FaceIds(m) : 100 * Abs(m.faces[i].n[3]) < ZThreshold(angle_threshold)}

find_steep_walls(m, angle_threshold) == SteepFaces(m, angle_threshold)

realistic_steep_walls(m, angle_threshold, min_depth) ==
    LET bounds == Bounds(m)
        deep(i) == bounds[2][3] - m.faces[i].c[3] > min_depth
        near_boundary(i) ==
            \/ Abs(m.faces[i].c[1] - bounds[1][1]) < ExternalTolerance
            \/ Abs(m.faces[i].c[1] - bounds[2][1]) < ExternalTolerance
            \/ Abs(m.faces[i].c[2] - bounds[1][2]) < ExternalTolerance
            \/ Abs(m.faces[i].c[2] - bounds[2][2]) < ExternalTolerance
    IN  {i \in SteepFaces(m, angle_threshold) : deep(i) /\ ~near_boundary(i)}

\* context_aware_steep_walls without the depth test
context_aware_steep_walls_any_depth(m, angle_threshold) ==
    {face_idx \in SteepFaces(m, angle_threshold) :
        ~analyze_face_context(face_idx, m).has_tool_access}

context_aware_steep_walls(m, angle_threshold) ==
    {face_idx \in SteepFaces(m, angle_threshold) :
        LET context == analyze_face_context(face_idx, m)
        IN  context.is_deep /\ ~context.has_tool_access}

\* the geometric_context module of the repository is importable, so the
\* ImportError fallback to realistic_steep_walls is never taken
ContextModuleImportable == TRUE

analyze_steep_walls(m, angle_threshold, min_depth, use_context) ==
    LET ctx == use_context /\ ContextModuleImportable
        steep_indices ==
            IF use_context
            THEN IF ContextModuleImportable
                 THEN context_aware_steep_walls(m, angle_threshold)
                 ELSE realistic_steep_walls(m, angle_threshold, min_depth)
            ELSE find_steep_walls(m, angle_threshold)
        count == Cardinality(steep_indices)
    IN  Return([count           |-> count,
                indices         |-> steep_indices,
                data            |-> IF use_context THEN [problematic_steep |-> count]
                                                   ELSE [total_steep |-> count],
                analysis_type   |-> IF ctx THEN "context-aware"
                                    ELSE IF use_context THEN "realistic" ELSE "basic",
                angle_threshold |-> angle_threshold,
                has_problem     |-> count > 0,
                severity        |-> IF count > 50 THEN "high"
                                    ELSE IF count > 20 THEN "medium" ELSE "low"])

----------------------------------------------------------------------------
(* narrow_channels_check.py *)

\* np.inf
Inf == 1000000000

\* k of tree.query(center, k=10)
QueryK == 10

DistSq(u, v) ==
    (u[1] - v[1]) * (u[1] - v[1]) + (u[2] - v[2]) * (u[2] - v[2])
        + (u[3] - v[3]) * (u[3] - v[3])

\* tree.query(center, k): the k smallest distances (squared) from face i to
\* the centroids, the face itself included, in ascending order; inf where
\* the tree holds fewer than k points
Query(m, i, k) ==
    LET ds == SortSeq([j \in FaceIds(m) |-> DistSq(m.faces[i].c, m.faces[j].c)],
                      LAMBDA a, b : a < b)
    IN  [q \in 1..k |-> IF q <= Len(ds) THEN ds[q] ELSE Inf]

\* detect_narrow_channels on the distance to the third other centroid
detect_narrow_channels_third_other(m, min_width) ==
    LET min_dist(i) ==
            LET dists == Query(m, i, QueryK)
            IN  IF Len(dists) > 3 THEN Min({dists[q] : q \in 4..Len(dists)}) ELSE Inf
        narrow_faces == {i \in FaceIds(m) : min_dist(i) < min_width * min_width}
        count == Cardinality(narrow_faces)
    IN  [count          |-> count,
         indices        |-> narrow_faces,
         severity       |-> IF count > 100 THEN "high"
                            ELSE IF count > 50 THEN "medium" ELSE "low",
         has_problem    |-> count > 0,
         recommendation |-> IF count > 0
                            THEN "Widen channels to improve tool access and chip evacuation."
                            ELSE "No problematic narrow channels."]

detect_narrow_channels(m, min_width) ==
    LET min_dist(i) ==
            LET dists == Query(m, i, QueryK)
            IN  IF Len(dists) > 2 THEN Min({dists[q] : q \in 3..Len(dists)}) ELSE Inf
        narrow_faces == {i \in FaceIds(m) : min_dist(i) < min_width * min_width}
        count == Cardinality(narrow_faces)
    IN  [count          |-> count,
         indices        |-> narrow_faces,
         severity       |-> IF count > 100 THEN "high"
                            ELSE IF count > 50 THEN "medium" ELSE "low",
         has_problem    |-> count > 0,
         recommendation |-> IF count > 0
                            THEN "Widen channels to improve tool access and chip evacuation."
                            ELSE "No problematic narrow channels."]

\* context-based strategy: estimated width sqrt(face_area) below the
\* minimum, and the face deep, without tool access and not external
context_aware_narrow_channels(m, min_channel_width) ==
    {face_idx \in {i \in FaceIds(m) : m.faces[i].area < min_channel_width * min_channel_width} :
        LET context == analyze_face_context(face_idx, m)
        IN  context.is_deep /\ ~context.has_tool_access /\ ~context.is_external}

analyze_narrow_channels(m, min_channel_width, use_context) ==
    IF use_context
    THEN LET narrow_indices == context_aware_narrow_channels(m, min_channel_width)
             count == Cardinality(narrow_indices)
         IN  Return([count             |-> count,
                     indices           |-> narrow_indices,
                     analysis_type     |-> "context-aware",
                     min_channel_width |-> min_channel_width,
                     has_problem       |-> count > 0,
                     severity          |-> IF count > 100 THEN "high"
                                           ELSE IF count > 50 THEN "medium" ELSE "low"])
    ELSE Return(detect_narrow_channels(m, min_channel_width))

----------------------------------------------------------------------------
(* deep_pockets_check.py *)

\* hits closer than 0.1 mm are ignored
SelfHitEps == 1

\* estimate_pocket_depth taking the nearest hit, however close
estimate_pocket_depth_nearest(face) ==
    IF face.nray_fails \/ face.nhits = {} THEN 0 ELSE Min(face.nhits)

estimate_pocket_depth(face) ==
    IF face.nray_fails
    THEN 0
    ELSE LET valid_depths == {d \in face.nhits : d > SelfHitEps}
         IN  IF valid_depths # {} THEN Min(valid_depths) ELSE 0

\* find_deep_pockets with the depth comparison reversed
find_deep_pockets_reversed(m, depth_threshold, method) ==
    LET deep_faces == {i \in FaceIds(m) :
                           estimate_pocket_depth(m.faces[i]) < depth_threshold}
    IN  <<deep_faces,
          [method |-> method, depth_threshold |-> depth_threshold,
           total_faces |-> NumFaces(m), deep_faces_count |-> Cardinality(deep_faces),
           max_depth |-> 0, error |-> None]>>

find_deep_pockets(m, depth_threshold, method) ==
    IF method = "ray"
    THEN LET deep_faces == {i \in FaceIds(m) :
                               estimate_pocket_depth(m.faces[i]) > depth_threshold}
             max_depth == Max({0} \cup {estimate_pocket_depth(m.faces[i]) : i \in deep_faces})
         IN  <<deep_faces,
               [method |-> method, depth_threshold |-> depth_threshold,
                total_faces |-> NumFaces(m), deep_faces_count |-> Cardinality(deep_faces),
                max_depth |-> max_depth, error |-> None]>>
    ELSE \* 'normal': mesh.verticesh raises AttributeError; any other method
         \* raises ValueError; both are caught
         <<{},
           [method |-> method, depth_threshold |-> depth_threshold,
            total_faces |-> NumFaces(m), deep_faces_count |-> 0,
            max_depth |-> 0,
            error |-> IF method = "normal"
                      THEN "'Trimesh' object has no attribute 'verticesh'"
                      ELSE "Unknown method"]>>

\* analyze_deep_pockets with the severity tiers of the narrow-channel detector
analyze_deep_pockets_narrow_tiers(m, depth_threshold, method) ==
    LET found == find_deep_pockets(m, depth_threshold, method)
        count == Cardinality(found[1])
    IN  Return([count           |-> count,
                indices         |-> found[1],
                data            |-> found[2],
                method          |-> method,
                depth_threshold |-> depth_threshold,
                has_problem     |-> count > 0,
                severity        |-> IF count > 100 THEN "high"
                                    ELSE IF count > 50 THEN "medium" ELSE "low",
                max_depth       |-> found[2].max_depth])

analyze_deep_pockets(m, depth_threshold, method) ==
    LET found == find_deep_pockets(m, depth_threshold, method)
        deep_indices == found[1]
        data == found[2]
        count == Cardinality(deep_indices)
    IN  Return([count           |-> count,
                indices         |-> deep_indices,
                data            |-> data,
                method          |-> method,
                depth_threshold |-> depth_threshold,
                has_problem     |-> count > 0,
                severity        |-> IF count > 50 THEN "high"
                                    ELSE IF count > 20 THEN "medium" ELSE "low",
                max_depth       |-> data.max_depth])

----------------------------------------------------------------------------
(* cnc_analyzer.py: CNCAnalyzer, configuration and detector dispatch *)

Detectors == {"undercuts", "internal_volumes", "small_features",
              "steep_walls", "narrow_channels", "deep_pockets"}

\* the order of the keys of analysis_methods
DetectorOrder == <<"undercuts", "internal_volumes", "small_features",
                   "steep_walls", "narrow_channels", "deep_pockets">>

get_default_config ==
    [min_tool_diameter     |-> 30,
     min_channel_width     |-> 20,
     steep_angle_threshold |-> 80,
     deep_pocket_threshold |-> 300,
     min_depth             |-> 50,
     use_context_aware     |-> TRUE,
     analysis_methods      |-> [d \in Detectors |-> TRUE]]

\* the configuration keys analyze_single_function reads for a detector
ConfigKeys(function_name) ==
    CASE function_name = "undercuts"        -> {"use_context_aware"}
      [] function_name = "internal_volumes" -> {"use_context_aware"}
      [] function_name = "small_features"   -> {"min_tool_diameter"}
      [] function_name = "steep_walls"      -> {"steep_angle_threshold", "min_depth",
                                                "use_context_aware"}
      [] function_name = "narrow_channels"  -> {"min_channel_width", "use_context_aware"}
      [] function_name = "deep_pockets"     -> {"deep_pocket_threshold"}

\* the detector call of analyze_single_function
CallDetector(function_name, m, cfg) ==
    CASE function_name = "undercuts" ->
            analyze_undercuts(m, cfg.use_context_aware)
      [] function_name = "internal_volumes" ->
            analyze_internal_volumes(m, cfg.use_context_aware)
      [] function_name = "small_features" ->
            analyze_small_features(m, cfg.min_tool_diameter)
      [] function_name = "steep_walls" ->
            analyze_steep_walls(m, cfg.steep_angle_threshold, cfg.min_depth,
                                cfg.use_context_aware)
      [] function_name = "narrow_channels" ->
            analyze_narrow_channels(m, cfg.min_channel_width, cfg.use_context_aware)
      [] function_name = "deep_pockets" ->
            analyze_deep_pockets(m, cfg.deep_pocket_threshold, "ray")

----------------------------------------------------------------------------
(* The meshes and the configurations of the model *)

Face(c, n, area, probe, nhits) ==
    [c |-> c, n |-> n, area |-> area, probe |-> probe, probe_fails |-> FALSE,
     nhits |-> nhits, nray_fails |-> FALSE]

\* the axis (1..3) and the sign of probe direction d, in the order
\* (0,0,-1) (0,0,1) (1,0,0) (-1,0,0) (0,1,0) (0,-1,0)
DirAxis(d) == CASE d \in {1, 2} -> 3 [] d \in {3, 4} -> 1 [] d \in {5, 6} -> 2

DirSign(d) == IF d \in {2, 3, 5} THEN 1 ELSE -1

\* An axis-aligned cube of side s with a corner at the origin: 8 vertices,
\* 12 triangles (two per side), 18 unique edges (12 sides, 6 diagonals).
\* A probe along a face's axis meets the face at the probe offset and the
\* opposite side s before or after it; a probe in the face's plane meets
\* nothing; the ray along the outward normal meets only the face itself.
CubeFace(s, k) ==
    LET axis == ((k - 1) \div 4) + 1
        side == ((k - 1) \div 2) % 2
        tri  == (k - 1) % 2
        u    == IF axis = 1 THEN 2 ELSE 1
        c    == [a \in 1..3 |->
                    IF a = axis THEN side * s
                    ELSE IF (a = u) = (tri = 0) THEN (2 * s) \div 3 ELSE s \div 3]
        out  == IF side = 1 THEN 1 ELSE -1
        n    == [a \in 1..3 |-> IF a = axis THEN 10 * out ELSE 0]
        probe == [d \in ProbeDirs |->
                    IF DirAxis(d) # axis THEN {}
                    ELSE IF DirSign(d) = -out THEN {ProbeOffset, ProbeOffset + s}
                    ELSE {ProbeOffset - s, ProbeOffset}]
    IN  Face(c, n, (s * s) \div 2, probe, {0})

Cube(s) ==
    [name          |-> "cube",
     faces         |-> [k \in 1..12 |-> CubeFace(s, k)],
     vertices      |-> [k \in 1..8 |->
                           <<((k - 1) % 2) * s, (((k - 1) \div 2) % 2) * s,
                             ((k - 1) \div 4) * s>>],
     edges_sq      |-> [k \in 1..18 |-> IF k <= 12 THEN s * s ELSE 2 * s * s],
     is_watertight |-> TRUE,
     hull_fails    |-> FALSE,
     volume        |-> s * s * s,
     convex_volume |-> s * s * s]

\* A machined part in the box (0,0,0)-(600,600,400).  Its faces come in
\* runs of one kind, the i-th face of a run shifted along y:
\*   outer   on the x = 0 side of the box, reached along +x
\*   hidden  5 mm above the bottom under an overhang 10 mm above it, every
\*           probe blocked 30 mm before the face
\*   wall    a small vertical face in the middle of the part, every probe
\*           blocked, 40 mm from the opposite wall
\*   floor   a pocket floor reached from above
\*   failed  a face in the middle of the part for which the ray casts fail
\*   ledge   a vertical face 8 mm above the bottom, every probe blocked
\*   tight   a face under a cover 1.2 mm above it, the other probes blocked
\*   rim     a face 1.5 mm inside the x = 0 side, every probe blocked
\*   tilted  a wall leaning 11 degrees from the vertical (normal z 0.2)
\*   leaning a wall leaning 6 degrees from the vertical (normal z 0.1)
\*   skim    a pocket floor whose normal ray hits at exactly 0.1 mm and at 6 mm
Blocked == [d \in ProbeDirs |-> {200}]

Shift(i) == IF i % 2 = 0 THEN 5 * (i \div 2) ELSE -5 * ((i + 1) \div 2)

PartFace(kind, i) ==
    CASE kind = "outer" ->
            Face(<<0, 300 + Shift(i), 200>>, <<-10, 0, 0>>, 10000,
                 [d \in ProbeDirs |-> IF d = 3 THEN {ProbeOffset, ProbeOffset + 600} ELSE {}],
                 {0})
      [] kind = "hidden" ->
            Face(<<300, 300 + Shift(i), 50>>, <<0, 0, 10>>, 10000, Blocked, {0, 100})
      [] kind = "wall" ->
            Face(<<300, 300 + Shift(i), 200>>, <<10, 0, 0>>, 100, Blocked, {400, 700})
      [] kind = "floor" ->
            Face(<<300, 300 + Shift(i), 100>>, <<0, 0, 10>>, 10000,
                 [d \in ProbeDirs |-> IF d = 1 THEN {ProbeOffset} ELSE {300}],
                 {})
      [] kind = "failed" ->
            [Face(<<300, 300 + Shift(i), 250>>, <<8, 0, 6>>, 100, Blocked, {400})
                EXCEPT !.probe_fails = TRUE, !.nray_fails = TRUE]
      [] kind = "ledge" ->
            Face(<<300, 300 + Shift(i), 80>>, <<10, 0, 0>>, 100, Blocked, {400})
      [] kind = "rim" ->
            Face(<<15, 300 + Shift(i), 200>>, <<-10, 0, 0>>, 100, Blocked, {15})
      [] kind = "tilted" ->
            Face(<<300, 300 + Shift(i), 200>>, <<10, 0, 2>>, 100, Blocked, {400})
      [] kind = "leaning" ->
            Face(<<300, 300 + Shift(i), 220>>, <<10, 0, -1>>, 100, Blocked, {400})
      [] kind = "skim" ->
            Face(<<300, 300 + Shift(i), 120>>, <<0, 0, 10>>, 10000,
                 [d \in ProbeDirs |-> IF d = 1 THEN {ProbeOffset} ELSE {300}],
                 {1, 60})
      [] kind = "tight" ->
            Face(<<300, 300 + Shift(i), 150>>, <<0, 0, 10>>, 10000,
                 [d \in ProbeDirs |-> IF d = 1 THEN {ProbeOffset - 12, ProbeOffset}
                                              ELSE {200}],
                 {0, 12})

\* runs: a sequence of <<kind, count>>
RECURSIVE RunFaces(_)
RunFaces(runs) ==
    IF runs = <<>> THEN <<>>
    ELSE [i \in 1..Head(runs)[2] |-> PartFace(Head(runs)[1], i)] \o RunFaces(Tail(runs))

\* the 8 corners of the box: 4 vertices on every bounding plane
BoxVertices ==
    [k \in 1..8 |-> <<((k - 1) % 2) * 600, (((k - 1) \div 2) % 2) * 600,
                      ((k - 1) \div 4) * 400>>]

\* a rounded part: one vertex on every bounding plane, six inside
RoundVertices ==
    <<  <<0, 300, 200>>, <<600, 300, 200>>, <<300, 0, 200>>, <<300, 600, 200>>,
        <<300, 300, 0>>, <<300, 300, 400>>,
        <<150, 150, 100>>, <<450, 150, 100>>, <<150, 450, 100>>,
        <<450, 450, 300>>, <<150, 450, 300>>, <<450, 150, 300>> >>

\* 8 edges of 60 mm, nsmall edges of 1 mm, 2 tessellation edges of 0.3 mm
PartEdges(nsmall) ==
    [k \in 1..(10 + nsmall) |-> IF k <= 8 THEN 360000 ELSE IF k <= 10 THEN 9 ELSE 100]

Part(name, runs, vertices, nsmall, watertight, volume10) ==
    [name          |-> name,
     faces         |-> RunFaces(runs),
     vertices      |-> vertices,
     edges_sq      |-> PartEdges(nsmall),
     is_watertight |-> watertight,
     hull_fails    |-> FALSE,
     volume        |-> volume10,
     convex_volume |-> 10]

\* faces in the long runs of the heavily flagged part
ManyFaces == 60

\* a part riddled with n small blind walls
Riddled(n) ==
    Part("riddled", << <<"outer", 2>>, <<"wall", n>> >>, RoundVertices, 3, TRUE, 2)

CubeSides == {12, 24, 60, 300}

Meshes ==
    {Cube(s) : s \in CubeSides} \cup
    { Part("bracket", << <<"outer", 4>>, <<"hidden", 1>>, <<"wall", 2>>, <<"floor", 2>>,
                         <<"failed", 1>>, <<"ledge", 1>>, <<"tight", 1>>, <<"rim", 1>> >>, BoxVertices, 1, TRUE, 5),
      Part("open shell", << <<"outer", 4>>, <<"hidden", 3>>, <<"floor", 2>> >>,
           RoundVertices, 0, FALSE, 2),
      Part("hollow", << <<"outer", 2>>, <<"floor", 3>> >>, RoundVertices, 0, TRUE, 5),
      Riddled(ManyFaces) }

\* the largest number of flagged faces of the parts the detectors are run
\* on directly
MaxFlagged == 101

\* a rounded part with two vertices near the bottom plane
FlatVertices == [RoundVertices EXCEPT ![7] = <<150, 150, 5>>]

\* a rounded part with exactly three vertices on the bottom plane
ThreeOnPlane ==
    [RoundVertices EXCEPT ![7] = <<150, 150, 0>>, ![8] = <<450, 150, 0>>]

\* a rounded part of ten vertices, one of them (10%) on every bounding plane
TenVertices == SubSeq(RoundVertices, 1, 10)

\* watertight shells of every volume ratio 0, 0.1 .. 1.0, with four
\* vertices on every bounding plane, with two near one plane, with one,
\* with exactly three on one plane, with exactly 10% on every plane
Shells ==
    {Part("shell", << <<"outer", 2>>, <<"floor", 3>> >>, v, 0, TRUE, r) :
        v \in {BoxVertices, FlatVertices, RoundVertices, ThreeOnPlane, TenVertices},
        r \in 0..10}

\* nlong edges of 60 mm, nhalf edges of exactly 0.5 mm, nsmall edges of
\* 1 mm, 2 tessellation edges of 0.3 mm
EdgeMix(nlong, nhalf, nsmall) ==
    [k \in 1..(nlong + nhalf + nsmall + 2) |->
        IF k <= nlong THEN 360000
        ELSE IF k <= nlong + nhalf THEN 25
        ELSE IF k <= nlong + nhalf + nsmall THEN 100 ELSE 9]

\* parts that differ in their unique edge lengths only
EdgeParts ==
    {[Part("edges", << <<"outer", 2>> >>, BoxVertices, 0, TRUE, 10)
         EXCEPT !.edges_sq = EdgeMix(nlong, nhalf, nsmall)] :
        nlong \in {0, 8, 9}, nhalf \in {0, 3}, nsmall \in 0..3}

\* the meshes the detectors are run on directly
DetectorMeshes ==
    Meshes \cup {Riddled(n) : n \in 0..MaxFlagged} \cup Shells \cup EdgeParts \cup
    { Part("overhang", << <<"outer", 4>>, <<"hidden", 1>>, <<"tight", 1>> >>,
           BoxVertices, 0, TRUE, 8),
      Part("ribbed", << <<"outer", 2>>, <<"wall", 1>>, <<"ledge", 1>>, <<"tilted", 1>>,
                        <<"leaning", 1>>, <<"hidden", 1>>, <<"failed", 1>>,
                        <<"rim", 1>>, <<"skim", 1>> >>, BoxVertices, 0, TRUE, 8),
      [Part("sliver", << <<"outer", 2>>, <<"floor", 3>> >>, RoundVertices, 0, TRUE, 2)
          EXCEPT !.hull_fails = TRUE] }

EmptyResults == [d \in {} |-> None]

Configs ==
    { get_default_config,
      [get_default_config EXCEPT !.use_context_aware = FALSE],
      [get_default_config EXCEPT !.deep_pocket_threshold = 50,
                                 !.min_tool_diameter = 10,
                                 !.analysis_methods =
                                     [d \in Detectors |-> d \in {"undercuts", "small_features",
                                                                  "deep_pockets"}]],
      \* configurations that give only some of the keys
      [min_tool_diameter |-> 50, use_context_aware |-> TRUE,
       analysis_methods |-> [d \in Detectors |-> TRUE]],
      [min_tool_diameter |-> 50] }

\* no detector raises, or exactly one does, or two do
Throwings ==
    {{}} \cup {{d} : d \in Detectors} \cup {{"undercuts", "deep_pockets"}}

\* the names passed to analyze_single_function
FunctionNames == Detectors \cup {"thin_walls"}

\* depth thresholds and methods of direct analyze_deep_pockets calls
DepthThresholds == {50, 300, 500}

Methods == {"ray", "normal"}

\* CallDetector and analyze_deep_pockets are pure functions of the mesh and
\* the configuration: they are tabulated over the meshes and configurations
\* of the model, so that a run of a detector is evaluated once
DetectorRuns ==
    [m \in Meshes |-> [cfg \in Configs |-> [f \in Detectors |->
        IF ConfigKeys(f) \subseteq DOMAIN cfg
        THEN CallDetector(f, m, cfg)
        ELSE Raise("KeyError")]]]

\* the faces a detector run passes to analyze_face_context, each once: all
\* faces for the context-aware undercuts, the steep faces for the
\* context-aware steep walls (the calls of the two detectors whose context
\* strategy is in the repository; no call is answered from a cache)
ContextCalls(function_name, m, cfg) ==
    CASE function_name = "undercuts" /\ cfg.use_context_aware -> FaceIds(m)
      [] function_name = "steep_walls" /\ cfg.use_context_aware /\ ContextModuleImportable ->
            SteepFaces(m, cfg.steep_angle_threshold)
      [] OTHER -> {}

ContextCallRuns ==
    [m \in Meshes |-> [cfg \in Configs |-> [f \in Detectors |->
        IF ConfigKeys(f) \subseteq DOMAIN cfg THEN ContextCalls(f, m, cfg) ELSE {}]]]

\* the number of analyze_face_context calls per face in one analyze_all run
Classified(m, cfg, thr) ==
    [i \in FaceIds(m) |->
        Cardinality({f \in Detectors :
                        /\ cfg.analysis_methods[f]
                        /\ f \notin thr
                        /\ i \in ContextCallRuns[m][cfg][f]})]

DeepPocketRuns ==
    [m \in DetectorMeshes |-> [t \in DepthThresholds |-> [method \in Methods |->
        analyze_deep_pockets(m, t, method)]]]

\* min_width of direct detect_narrow_channels calls: the configuration's
\* default and the function's own
MinWidths == {20, 50}

UndercutRuns ==
    [m \in DetectorMeshes |-> [use_context \in BOOLEAN |-> analyze_undercuts(m, use_context)]]

\* tool diameters of direct analyze_small_features calls: 3 mm, 1 mm
ToolDiameters == {30, 10}

SmallFeatureRuns ==
    [m \in DetectorMeshes |-> [min_tool_diameter \in ToolDiameters |->
        analyze_small_features(m, min_tool_diameter)]]

InternalVolumeRuns ==
    [m \in DetectorMeshes |-> [use_context \in BOOLEAN |->
        analyze_internal_volumes(m, use_context)]]

\* steep-wall angle thresholds of direct analyze_steep_walls calls
AngleThresholds == {70, 80}

SteepWallRuns ==
    [m \in DetectorMeshes |-> [angle_threshold \in AngleThresholds |->
        [use_context \in BOOLEAN |->
            analyze_steep_walls(m, angle_threshold, get_default_config.min_depth,
                                use_context)]]]

NarrowChannelRuns ==
    [m \in DetectorMeshes |-> [min_width \in MinWidths |->
        Return(detect_narrow_channels(m, min_width))]]

----------------------------------------------------------------------------
(* cnc_analyzer.py: CNCAnalyzer, the operations *)

\* the outcome of analyze_single_function(function_name), before the store
analyze_single_function(function_name, m, cfg, thr) ==
    IF m = NoMesh
    THEN Raise("No mesh loaded. Call load_mesh() first.")
    ELSE IF function_name \notin Detectors
    THEN Raise("Unknown function")
    ELSE IF ~(ConfigKeys(function_name) \subseteq DOMAIN cfg)
    THEN Raise("KeyError")
    ELSE IF function_name \in thr
    THEN Raise("detector failed")
    ELSE DetectorRuns[m][cfg][function_name]

\* a store that adds a new result's count to the count already stored
PutAccumulate(res, k, v) ==
    [x \in DOMAIN res \cup {k} |->
        IF x # k THEN res[x]
        ELSE IF k \in DOMAIN res /\ "count" \in DOMAIN res[k] /\ "count" \in DOMAIN v
        THEN [v EXCEPT !.count = v.count + res[k].count]
        ELSE v]

Put(res, k, v) == [x \in DOMAIN res \cup {k} |-> IF x = k THEN v ELSE res[x]]

\* the loop of analyze_all over analysis_methods.items(), from position i
RECURSIVE analyze_all_from(_, _, _, _, _)
analyze_all_from(i, res, m, cfg, thr) ==
    IF i > Len(DetectorOrder)
    THEN res
    ELSE LET function_name == DetectorOrder[i]
             enabled == /\ "analysis_methods" \in DOMAIN cfg
                        /\ function_name \in DOMAIN cfg.analysis_methods
                        /\ cfg.analysis_methods[function_name]
             o == analyze_single_function(function_name, m, cfg, thr)
         IN  IF ~enabled
             THEN analyze_all_from(i + 1, res, m, cfg, thr)
             ELSE IF Raised(o)
             THEN analyze_all_from(i + 1, Put(res, function_name, [error |-> o.exc]),
                                   m, cfg, thr)
             ELSE analyze_all_from(i + 1, Put(res, function_name, o.val), m, cfg, thr)

\* analyze_all with the try around the whole loop: the first exception ends it
RECURSIVE analyze_all_abort_from(_, _, _, _, _)
analyze_all_abort_from(i, res, m, cfg, thr) ==
    IF i > Len(DetectorOrder)
    THEN res
    ELSE LET function_name == DetectorOrder[i]
             enabled == /\ "analysis_methods" \in DOMAIN cfg
                        /\ function_name \in DOMAIN cfg.analysis_methods
                        /\ cfg.analysis_methods[function_name]
             o == analyze_single_function(function_name, m, cfg, thr)
         IN  IF ~enabled
             THEN analyze_all_abort_from(i + 1, res, m, cfg, thr)
             ELSE IF Raised(o)
             THEN Put(res, function_name, [error |-> o.exc])
             ELSE analyze_all_abort_from(i + 1, Put(res, function_name, o.val), m, cfg, thr)

analyze_all_abort(res, m, cfg, thr) == analyze_all_abort_from(1, res, m, cfg, thr)

analyze_all(res, m, cfg, thr) == analyze_all_from(1, res, m, cfg, thr)

\* dict.get(key, default)
Get(entry, key, default) == IF key \in DOMAIN entry THEN entry[key] ELSE default

\* min(base, count * per_face), in tenths of a point
CountPenalty(res, name, base, per_face) ==
    IF name \in DOMAIN res
    THEN MinOf(base, Get(res[name], "count", 0) * per_face)
    ELSE 0

\* the severity tables' .get(severity, 0), in tenths of a point
SeverityPenalty(res, name, table) ==
    IF name \in DOMAIN res
    THEN LET severity == Get(res[name], "severity", 0)
         IN  IF severity \in DOMAIN table THEN table[severity] ELSE 0
    ELSE 0

\* calculate_score without the final max(0, score)
calculate_score_unclamped(res) ==
    1000 - CountPenalty(res, "undercuts", 400, 8)
         - SeverityPenalty(res, "internal_volumes", (0 :> 0) @@ (1 :> 150) @@ (2 :> 350))
         - SeverityPenalty(res, "small_features", (0 :> 0) @@ (1 :> 50) @@ (2 :> 100))
         - CountPenalty(res, "steep_walls", 200, 4)
         - CountPenalty(res, "narrow_channels", 300, 5)
         - CountPenalty(res, "deep_pockets", 400, 10)

\* calculate_score with the narrow-channel rate used for steep walls
calculate_score_wrong_rate(res) ==
    MaxOf(0, 1000 - CountPenalty(res, "undercuts", 400, 8)
         - SeverityPenalty(res, "internal_volumes", (0 :> 0) @@ (1 :> 150) @@ (2 :> 350))
         - SeverityPenalty(res, "small_features", (0 :> 0) @@ (1 :> 50) @@ (2 :> 100))
         - CountPenalty(res, "steep_walls", 200, 5)
         - CountPenalty(res, "narrow_channels", 300, 5)
         - CountPenalty(res, "deep_pockets", 400, 10))

calculate_score(res) ==
    LET s0 == 1000
        s1 == s0 - CountPenalty(res, "undercuts", 400, 8)
        s2 == s1 - SeverityPenalty(res, "internal_volumes", (0 :> 0) @@ (1 :> 150) @@ (2 :> 350))
        s3 == s2 - SeverityPenalty(res, "small_features", (0 :> 0) @@ (1 :> 50) @@ (2 :> 100))
        s4 == s3 - CountPenalty(res, "steep_walls", 200, 4)
        s5 == s4 - CountPenalty(res, "narrow_channels", 300, 5)
        s6 == s5 - CountPenalty(res, "deep_pockets", 400, 10)
    IN  MaxOf(0, s6)

\* one `name in self.results and self.results[name][key] > 0` test with its
\* append; a missing key raises KeyError
RegionStep(acc, res, name, key, label, with_indices) ==
    IF Raised(acc) \/ name \notin DOMAIN res
    THEN acc
    ELSE IF key \notin DOMAIN res[name]
    THEN Raise("KeyError")
    ELSE IF res[name][key] > 0
    THEN IF with_indices
         THEN IF "indices" \in DOMAIN res[name]
              THEN Return(Append(acc.val, <<label, res[name].indices>>))
              ELSE Raise("KeyError")
         ELSE Return(Append(acc.val, <<label, {}>>))
    ELSE acc

get_problem_regions(res) ==
    LET r0 == Return(<<>>)
        r1 == RegionStep(r0, res, "undercuts", "count", "Undercuts", TRUE)
        r2 == RegionStep(r1, res, "internal_volumes", "severity", "Internal Volumes", FALSE)
        r3 == RegionStep(r2, res, "steep_walls", "count", "Steep Walls", TRUE)
        r4 == RegionStep(r3, res, "narrow_channels", "count", "Narrow Channels", TRUE)
        r5 == RegionStep(r4, res, "deep_pockets", "count", "Deep Pockets", TRUE)
    IN  r5

----------------------------------------------------------------------------
(* The analyzer as a state machine *)

Init ==
    /\ mesh = NoMesh
    /\ config \in Configs
    /\ results = EmptyResults
    /\ throwing \in Throwings
    /\ ret = [op |-> "__init__"]

\* analyzer.mesh = mesh / load_mesh(file_path)
LoadMesh(m) ==
    /\ mesh = NoMesh
    /\ mesh' = m
    /\ ret' = [op |-> "load_mesh"]
    /\ UNCHANGED <<config, results, throwing>>

AnalyzeSingle(function_name) ==
    LET o == analyze_single_function(function_name, mesh, config, throwing)
    IN  /\ results' = IF Raised(o) THEN results ELSE Put(results, function_name, o.val)
        /\ ret' = [op |-> "analyze_single_function", fn |-> function_name, out |-> o]
        /\ UNCHANGED <<mesh, config, throwing>>

AnalyzeAll ==
    /\ IF mesh = NoMesh
       THEN /\ ret' = [op |-> "analyze_all", out |-> Raise("No mesh loaded. Call load_mesh() first.")]
            /\ UNCHANGED results
       ELSE IF "analysis_methods" \notin DOMAIN config
       THEN \* self.config['analysis_methods'] raises before the loop
            /\ ret' = [op |-> "analyze_all", out |-> Raise("KeyError")]
            /\ UNCHANGED results
       ELSE /\ results' = analyze_all(results, mesh, config, throwing)
            /\ ret' = [op |-> "analyze_all", out |-> Return("results"),
                       classified |-> Classified(mesh, config, throwing)]
    /\ UNCHANGED <<mesh, config, throwing>>

CalculateScore ==
    /\ ret' = [op |-> "calculate_score", out |-> Return(calculate_score(results))]
    /\ UNCHANGED <<mesh, config, results, throwing>>

GetProblemRegions ==
    /\ ret' = [op |-> "get_problem_regions", out |-> get_problem_regions(results)]
    /\ UNCHANGED <<mesh, config, results, throwing>>

\* a detector called on its own: analyze_deep_pockets(mesh, t, method)
DeepPockets(t, method) ==
    /\ mesh # NoMesh
    /\ ret' = [op |-> "analyze_deep_pockets", method |-> method, depth_threshold |-> t,
               out |-> DeepPocketRuns[mesh][t][method]]
    /\ UNCHANGED <<mesh, config, results, throwing>>

Next ==
    \/ \E m \in Meshes : LoadMesh(m)
    \/ \E f \in FunctionNames : AnalyzeSingle(f)
    \/ AnalyzeAll
    \/ CalculateScore
    \/ GetProblemRegions
    \/ \E t \in DepthThresholds : \E method \in Methods : DeepPockets(t, method)

Spec == Init /\ [][Next]_vars

----------------------------------------------------------------------------
(* The detectors called on their own on a loaded mesh *)

Undercuts(use_context) ==
    /\ mesh # NoMesh
    /\ ret' = [op |-> "analyze_undercuts", use_context |-> use_context,
               out |-> UndercutRuns[mesh][use_context]]
    /\ UNCHANGED <<mesh, config, results, throwing>>

InternalVolumes(use_context) ==
    /\ mesh # NoMesh
    /\ ret' = [op |-> "analyze_internal_volumes", use_context |-> use_context,
               out |-> InternalVolumeRuns[mesh][use_context]]
    /\ UNCHANGED <<mesh, config, results, throwing>>

SteepWalls(angle_threshold, use_context) ==
    /\ mesh # NoMesh
    /\ ret' = [op |-> "analyze_steep_walls", angle_threshold |-> angle_threshold,
               use_context |-> use_context,
               out |-> SteepWallRuns[mesh][angle_threshold][use_context]]
    /\ UNCHANGED <<mesh, config, results, throwing>>

NarrowChannels(min_width) ==
    /\ mesh # NoMesh
    /\ ret' = [op |-> "detect_narrow_channels", min_width |-> min_width,
               out |-> NarrowChannelRuns[mesh][min_width]]
    /\ UNCHANGED <<mesh, config, results, throwing>>

SmallFeatures(min_tool_diameter) ==
    /\ mesh # NoMesh
    /\ ret' = [op |-> "analyze_small_features", min_tool_diameter |-> min_tool_diameter,
               out |-> SmallFeatureRuns[mesh][min_tool_diameter]]
    /\ UNCHANGED <<mesh, config, results, throwing>>

CheckExternalOpenings ==
    /\ mesh # NoMesh
    /\ ret' = [op |-> "check_external_openings",
               out |-> Return(check_external_openings(mesh))]
    /\ UNCHANGED <<mesh, config, results, throwing>>

NextDetectors ==
    \/ \E m \in DetectorMeshes : LoadMesh(m)
    \/ \E use_context \in BOOLEAN : Undercuts(use_context)
    \/ \E use_context \in BOOLEAN : InternalVolumes(use_context)
    \/ CheckExternalOpenings
    \/ \E min_tool_diameter \in ToolDiameters : SmallFeatures(min_tool_diameter)
    \/ \E angle_threshold \in AngleThresholds : \E use_context \in BOOLEAN :
          SteepWalls(angle_threshold, use_context)
    \/ \E min_width \in MinWidths : NarrowChannels(min_width)
    \/ \E t \in DepthThresholds : \E method \in Methods : DeepPockets(t, method)

SpecDetectors == Init /\ [][NextDetectors]_vars

----------------------------------------------------------------------------
(* Properties *)

EnabledDetectors(cfg) ==
    IF "analysis_methods" \in DOMAIN cfg
    THEN {d \in Detectors : cfg.analysis_methods[d]}
    ELSE {}

\* the enabled detectors whose call raises on the loaded mesh
RaisingDetectors ==
    {d \in EnabledDetectors(config) :
        Raised(analyze_single_function(d, mesh, config, throwing))}

ErrorEntries == {d \in DOMAIN results : "error" \in DOMAIN results[d]}

\* has_problem of an entry; an entry without the field (undercuts) has a
\* problem when its count is positive
HasProblem(entry) ==
    IF "has_problem" \in DOMAIN entry THEN entry.has_problem
    ELSE IF "count" \in DOMAIN entry THEN entry.count > 0
    ELSE FALSE

Without(res, d) == [x \in DOMAIN res \ {d} |-> res[x]]

AfterAnalyzeAll == ret.op = "analyze_all" /\ mesh # NoMesh

\* C1: calculate_score() of every reachable result map (results of any
\* sequence of analyze_single_function / analyze_all calls, error-only
\* entries and missing entries included) is a value in [0, 100]
C1_ScoreInRange ==
    /\ calculate_score(results) \in 0..1000
    /\ ret.op = "calculate_score" => ret.out.val \in 0..1000

\* a score clamped at 0 although one entry is an error entry
C1_Witness ==
    /\ ret.op = "calculate_score"
    /\ ret.out.val = 0
    /\ ErrorEntries # {}
    /\ \E d \in DOMAIN results : Get(results[d], "count", 0) >= 50

\* C2: if exactly one enabled detector raises during analyze_all(), the call
\* returns normally, every other enabled detector has its own complete
\* entry, the failing detector's entry carries error, the score is valid
\* and the failing detector contributes no penalty to it
C2_PartialFailure ==
    (AfterAnalyzeAll /\ Cardinality(RaisingDetectors) = 1) =>
        /\ ~Raised(ret.out)
        /\ \A d \in EnabledDetectors(config) \ RaisingDetectors :
              /\ d \in DOMAIN results
              /\ "error" \notin DOMAIN results[d]
              /\ results[d] = DetectorRuns[mesh][config][d].val
        /\ \A f \in RaisingDetectors :
              /\ f \in DOMAIN results
              /\ "error" \in DOMAIN results[f]
              /\ calculate_score(results) = calculate_score(Without(results, f))
        /\ calculate_score(results) \in 0..1000

\* one detector failed, another one of the run found problems that cost points
C2_Witness ==
    /\ AfterAnalyzeAll
    /\ Cardinality(RaisingDetectors) = 1
    /\ calculate_score(results) \in 1..999
    /\ \E i, j \in DOMAIN DetectorOrder :
          /\ i < j
          /\ DetectorOrder[i] \in RaisingDetectors
          /\ DetectorOrder[j] \in DOMAIN results
          /\ HasProblem(results[DetectorOrder[j]])

RegionDetectors == {"undercuts", "internal_volumes", "steep_walls",
                    "narrow_channels", "deep_pockets"}

\* C3: with an error entry recorded by analyze_all() for undercuts, internal
\* volumes, steep walls, narrow channels or deep pockets,
\* get_problem_regions() returns normally and lists the regions of the
\* detectors that completed
C3_RegionsAfterError ==
    (ret.op = "get_problem_regions" /\ ErrorEntries \cap RegionDetectors # {}) =>
        /\ ~Raised(ret.out)
        /\ ret.out = get_problem_regions(
                        [d \in DOMAIN results \ ErrorEntries |-> results[d]])

InconclusiveVolumes(entry) ==
    /\ entry.severity = 0
    /\ entry.has_problem = FALSE
    /\ entry.data.error \notin {None, ""}
    /\ entry.data.actual_volume = 0
    /\ entry.data.convex_volume = 0
    /\ entry.data.volume_ratio = <<0, 1>>

\* C4: for a mesh whose watertight flag is false the internal-volume
\* detector, context-aware or realistic, returns without raising severity 0,
\* has_problem false and a non-empty error text, the volume and the
\* convex-hull volume not read (the reported volumes stay 0); a single
\* call is considered when the analyzer reaches the detector, that is when
\* the configuration holds the key the call reads
C4_NotWatertight ==
    (mesh # NoMesh /\ ~mesh.is_watertight /\ "internal_volumes" \notin throwing) =>
        /\ (/\ ret.op = "analyze_single_function" /\ ret.fn = "internal_volumes"
            /\ ConfigKeys("internal_volumes") \subseteq DOMAIN config) =>
              ~Raised(ret.out) /\ InconclusiveVolumes(ret.out.val)
        /\ (ret.op = "analyze_all" /\ "internal_volumes" \in EnabledDetectors(config)) =>
              InconclusiveVolumes(results["internal_volumes"])

\* the realistic strategy has run on a mesh that is not watertight and whose
\* reported volume is not 0
C4_Witness ==
    /\ mesh # NoMesh
    /\ ~mesh.is_watertight
    /\ mesh.volume # 0
    /\ ret.op = "analyze_single_function"
    /\ ret.fn = "internal_volumes"
    /\ ~Raised(ret.out)
    /\ ret.out.val.analysis_type = "realistic"

IsCube(m) == m # NoMesh /\ m.name = "cube"

CubeRun ==
    /\ IsCube(mesh)
    /\ config = get_default_config
    /\ throwing = {}
    /\ ret.op = "analyze_all"

NoProblems ==
    /\ \A d \in Detectors : d \in DOMAIN results /\ ~HasProblem(results[d])
    /\ calculate_score(results) = 1000

\* C5 as claimed: for every axis-aligned cube the six detectors, run with
\* the default configuration, report no problem and the score is 100
C5_AnyCube == CubeRun => NoProblems

\* C5 as amended: the same for every axis-aligned cube whose side is at
\* least the tool radius min_tool_diameter / 2 (1.5 mm by default)
C5_CubeNotSmallerThanTool ==
    (CubeRun /\ \A i \in DOMAIN mesh.edges_sq :
                    4 * mesh.edges_sq[i] >= config.min_tool_diameter * config.min_tool_diameter)
        => NoProblems

\* the six detectors have run on a cube of side between 1.5 mm and 3 mm
C5_Witness ==
    /\ CubeRun
    /\ DOMAIN results = Detectors
    /\ \E i \in DOMAIN mesh.edges_sq :
          /\ 4 * mesh.edges_sq[i] >= config.min_tool_diameter * config.min_tool_diameter
          /\ mesh.edges_sq[i] < config.min_tool_diameter * config.min_tool_diameter
    /\ \A i \in DOMAIN mesh.edges_sq :
          4 * mesh.edges_sq[i] >= config.min_tool_diameter * config.min_tool_diameter

C7_Monotone ==
    [][ (/\ ret.op = "analyze_deep_pockets"
         /\ ret'.op = "analyze_deep_pockets"
         /\ ret'.method = ret.method
         /\ mesh' = mesh)
        => /\ ret.depth_threshold <= ret'.depth_threshold =>
                /\ ret.out.val.count >= ret'.out.val.count
                /\ ret.method = "ray" => ret'.out.val.indices \subseteq ret.out.val.indices
           /\ ret.depth_threshold >= ret'.depth_threshold =>
                /\ ret.out.val.count <= ret'.out.val.count
                /\ ret.method = "ray" => ret.out.val.indices \subseteq ret'.out.val.indices
      ]_vars

\* a ray run that flags some faces, fewer than the run with the smallest
\* threshold flags
C7_Witness ==
    /\ ret.op = "analyze_deep_pockets"
    /\ ret.method = "ray"
    /\ ret.depth_threshold > Min(DepthThresholds)
    /\ ret.out.val.count > 0
    /\ ret.out.val.count < DeepPocketRuns[mesh][Min(DepthThresholds)]["ray"].val.count

\* C8: the entry analyze_all() stores for a detector that raised holds the
\* error message, severity 0 and has_problem false
C8_ErrorEntryShape ==
    \A d \in ErrorEntries :
        /\ "severity" \in DOMAIN results[d]
        /\ results[d].severity = 0
        /\ "has_problem" \in DOMAIN results[d]
        /\ results[d].has_problem = FALSE

Label(d) ==
    CASE d = "undercuts" -> "Undercuts"
      [] d = "internal_volumes" -> "Internal Volumes"
      [] d = "small_features" -> "Small Features"
      [] d = "steep_walls" -> "Steep Walls"
      [] d = "narrow_channels" -> "Narrow Channels"
      [] d = "deep_pockets" -> "Deep Pockets"

\* C9: on a result map whose detectors all completed, get_problem_regions()
\* emits exactly one region for every detector whose result has a problem
\* (count > 0, or severity > 0 for internal volumes and small features) and
\* none for the others
C9_RegionPerProblem ==
    (ret.op = "get_problem_regions" /\ ErrorEntries = {}) =>
        /\ ~Raised(ret.out)
        /\ \A d \in Detectors :
              Cardinality({i \in DOMAIN ret.out.val : ret.out.val[i][1] = Label(d)})
                = IF d \in DOMAIN results /\ HasProblem(results[d]) THEN 1 ELSE 0

\* the penalty table of the claim, in tenths of a point
ClaimedPenalty(res, d) ==
    IF d \notin DOMAIN res THEN 0
    ELSE LET count == Get(res[d], "count", 0)
             severity == Get(res[d], "severity", 0)
         IN  CASE d = "undercuts"        -> MinOf(400, 8 * count)
               [] d = "steep_walls"      -> MinOf(200, 4 * count)
               [] d = "narrow_channels"  -> MinOf(300, 5 * count)
               [] d = "deep_pockets"     -> MinOf(400, 10 * count)
               [] d = "internal_volumes" -> <<0, 150, 350>>[severity + 1]
               [] d = "small_features"   -> <<0, 50, 100>>[severity + 1]

\* one more flagged face, or the next severity tier, for detector d
Worse(res, d) ==
    IF "count" \in DOMAIN res[d]
    THEN [res EXCEPT ![d].count = @ + 1]
    ELSE IF "severity" \in DOMAIN res[d] /\ res[d].severity \in {0, 1}
    THEN [res EXCEPT ![d].severity = @ + 1]
    ELSE res

\* C10: calculate_score() is max(0, 100 - sum of the penalties) with the
\* caps, rates and severity tables of the claim, an absent detector costing
\* nothing; a higher count or severity never gives a higher score
C10_ScoreFormula ==
    /\ ret.op = "calculate_score" =>
          ret.out.val = MaxOf(0, 1000 - SumSeq([i \in 1..6 |->
                                     ClaimedPenalty(results, DetectorOrder[i])]))
    /\ \A d \in DOMAIN results :
          calculate_score(Worse(results, d)) <= calculate_score(results)

\* a score between 0 and 100 in which the steep-wall cap binds and a
\* severity penalty is charged
C10_Witness ==
    /\ ret.op = "calculate_score"
    /\ ret.out.val \in 1..999
    /\ "steep_walls" \in DOMAIN results
    /\ Get(results["steep_walls"], "count", 0) * 4 > 200
    /\ \E d \in {"internal_volumes", "small_features"} :
          d \in DOMAIN results /\ Get(results[d], "severity", 0) > 0

\* C11: after analyze_all() the result map holds entries for exactly the
\* detectors enabled in the configuration, and the score counts no entry of
\* a disabled detector
C11_OnlyEnabledEntries ==
    (ret.op = "analyze_all" /\ ~Raised(ret.out)) =>
        /\ DOMAIN results = EnabledDetectors(config)
        /\ calculate_score(results)
              = calculate_score([d \in DOMAIN results \cap EnabledDetectors(config) |->
                                    results[d]])

\* C12: with a configuration that lacks some of the keys, analyze_all() does
\* not raise and records no error entry (no detector raising on its own)
C12_MissingKeysDefaulted ==
    (ret.op = "analyze_all" /\ mesh # NoMesh /\ throwing = {}
        /\ DOMAIN config # DOMAIN get_default_config) =>
        /\ ~Raised(ret.out)
        /\ ErrorEntries = {}

\* the faces a context-aware detector flags when the classifier takes its
\* thresholds from the configuration: tool radius min_tool_diameter / 2,
\* deep beyond min_depth
ConfiguredUndercuts(m, cfg) ==
    {i \in FaceIds(m) :
        /\ ~has_clear_tool_access(m.faces[i], cfg.min_tool_diameter)
        /\ ~is_surface_external(m.faces[i].c, Bounds(m), ExternalTolerance)}

ConfiguredSteepWalls(m, cfg) ==
    {i \in SteepFaces(m, cfg.steep_angle_threshold) :
        /\ is_face_in_deep_pocket(m.faces[i].c, Bounds(m), cfg.min_depth)
        /\ ~has_clear_tool_access(m.faces[i], cfg.min_tool_diameter)}

ContextRun(function_name) ==
    /\ ret.op = "analyze_single_function"
    /\ ret.fn = function_name
    /\ ~Raised(ret.out)
    /\ ret.out.val.analysis_type = "context-aware"

\* C13: in context-aware mode the undercut and steep-wall detectors classify
\* faces with the configuration's thresholds: tool access with radius
\* min_tool_diameter / 2, deep with min_depth
C13_ContextFromConfig ==
    DOMAIN config = DOMAIN get_default_config =>
        /\ ContextRun("undercuts") =>
              ret.out.val.indices = ConfiguredUndercuts(mesh, config)
        /\ ContextRun("steep_walls") =>
              ret.out.val.indices = ConfiguredSteepWalls(mesh, config)

BasicUndercutRun ==
    /\ ret.op = "analyze_undercuts"
    /\ ~ret.use_context

\* normal.z > 0.3 and dot(normal, normalize(centroid - mean centroid)) < -0.2,
\* the normal in tenths: 10 * dot < -2 * |centroid - mean centroid|
BasicUndercutFace(m, i) ==
    LET mean == [a \in 1..3 |->
                    SumSeq([j \in 1..Len(m.faces) |-> m.faces[j].c[a]]) \div Len(m.faces)]
        v == [a \in 1..3 |-> m.faces[i].c[a] - mean[a]]
        d == Dot(m.faces[i].n, v)
    IN  /\ 10 * m.faces[i].n[3] > 30
        /\ d < 0
        /\ d * d > 4 * Dot(v, v)

\* C14: the basic undercut strategy flags exactly the faces with
\* normal.z > 0.3 whose normal makes a dot product below -0.2 with the unit
\* vector from the mean centroid to the face; a mesh with exactly one such
\* face yields count 1 and severity low
C14_BasicUndercuts ==
    BasicUndercutRun =>
        LET flagged == {i \in 1..Len(mesh.faces) : BasicUndercutFace(mesh, i)}
        IN  /\ ~Raised(ret.out)
            /\ ret.out.val.indices = flagged
            /\ ret.out.val.count = Cardinality(flagged)
            /\ Cardinality(flagged) = 1 =>
                  ret.out.val.count = 1 /\ ret.out.val.severity = "low"

\* a basic run on a mesh with two upward faces below the mean centroid, of
\* which exactly one is flagged
C14_Witness ==
    /\ BasicUndercutRun
    /\ ret.out.val.count = 1
    /\ ret.out.val.severity = "low"
    /\ \E i \in 1..Len(mesh.faces) :
          /\ i \notin ret.out.val.indices
          /\ mesh.faces[i].n[3] > 3
          /\ mesh.faces[i].c[3] < MeshCenter(mesh)[3]

UndercutRun == ret.op = "analyze_undercuts" /\ ~Raised(ret.out)

\* C15 as claimed: the undercut severity is low below 50 flagged faces,
\* medium from 50 and below 100, high from 100
C15_TiersFrom50And100 ==
    UndercutRun =>
        ret.out.val.severity = (IF ret.out.val.count < 50 THEN "low"
                                ELSE IF ret.out.val.count < 100 THEN "medium" ELSE "high")

\* C15 as amended: the undercut severity is a function of the count only:
\* low up to 50 flagged faces, medium above 50 and up to 100, high above 100
C15_TiersAbove50And100 ==
    UndercutRun =>
        /\ ret.out.val.count = Cardinality(ret.out.val.indices)
        /\ ret.out.val.count <= 50 => ret.out.val.severity = "low"
        /\ (ret.out.val.count > 50 /\ ret.out.val.count <= 100) =>
              ret.out.val.severity = "medium"
        /\ ret.out.val.count > 100 => ret.out.val.severity = "high"

\* exactly 100 flagged faces, reported medium
C15_Witness ==
    /\ UndercutRun
    /\ ret.out.val.count = 100
    /\ ret.out.val.severity = "medium"

\* the tier the claim gives both detectors
ClaimedTier(count) ==
    IF count > 100 THEN "high" ELSE IF count > 50 THEN "medium" ELSE "low"

NarrowChannelRun == ret.op = "detect_narrow_channels"

DeepPocketRun == ret.op = "analyze_deep_pockets"

\* C16 as claimed: the narrow-channel and the deep-pocket detector report
\* high above 100 flagged faces, medium above 50, low otherwise
C16_SameTiers ==
    (NarrowChannelRun \/ DeepPocketRun) =>
        ret.out.val.severity = ClaimedTier(ret.out.val.count)

\* C16 as amended: the narrow-channel detector reports high above 100
\* flagged faces and medium above 50, the deep-pocket detector high above 50
\* and medium above 20; on a mesh where both flag the same number of faces
\* their tiers agree exactly when that number is at most 20 or above 100
C16_TiersPerDetector ==
    /\ NarrowChannelRun =>
          ret.out.val.severity = (IF ret.out.val.count > 100 THEN "high"
                                  ELSE IF ret.out.val.count > 50 THEN "medium" ELSE "low")
    /\ DeepPocketRun =>
          /\ ret.out.val.severity = (IF ret.out.val.count > 50 THEN "high"
                                     ELSE IF ret.out.val.count > 20 THEN "medium" ELSE "low")
          /\ \A min_width \in MinWidths :
                LET narrow == NarrowChannelRuns[mesh][min_width].val
                IN  narrow.count = ret.out.val.count =>
                        (narrow.severity = ret.out.val.severity
                            <=> (ret.out.val.count <= 20 \/ ret.out.val.count > 100))

\* both detectors flag the same 51 faces: the deep-pocket detector reports
\* high, the narrow-channel detector medium
C16_Witness ==
    /\ DeepPocketRun
    /\ ret.out.val.count = 51
    /\ ret.out.val.severity = "high"
    /\ \E min_width \in MinWidths :
          /\ NarrowChannelRuns[mesh][min_width].val.count = 51
          /\ NarrowChannelRuns[mesh][min_width].val.severity = "medium"

\* the centroid is less than 2 mm from one of the six bounding-box planes
NearBoundingPlane(m, i) ==
    \E a \in 1..3 :
        LET lo == Min({m.vertices[k][a] : k \in DOMAIN m.vertices})
            hi == Max({m.vertices[k][a] : k \in DOMAIN m.vertices})
        IN  Abs(m.faces[i].c[a] - lo) < 20 \/ Abs(m.faces[i].c[a] - hi) < 20

\* the probe directions in which the ray started 50 mm before the face hits
\* nothing, or its nearest hit is less than 1.5 mm (half the 3 mm tool) from
\* the expected 50 mm
ClearDirections(face) ==
    {d \in 1..6 :
        \/ face.probe[d] = {}
        \/ \E h \in face.probe[d] :
              /\ \A g \in face.probe[d] : h <= g
              /\ 2 * Abs(h - 500) < 30}

Accessible(face) == face.probe_fails \/ ClearDirections(face) # {}

ContextUndercutRun == UndercutRun /\ ret.use_context

\* C17: the context-aware undercut strategy examines every face and flags
\* exactly those without tool access that are not external; a face less
\* than 2 mm from a bounding-box plane is never flagged
C17_ContextUndercuts ==
    ContextUndercutRun =>
        \A i \in 1..Len(mesh.faces) :
            /\ i \in ret.out.val.indices <=>
                    (~Accessible(mesh.faces[i]) /\ ~NearBoundingPlane(mesh, i))
            /\ NearBoundingPlane(mesh, i) => i \notin ret.out.val.indices

\* a run that flags a vertical face and leaves unflagged a face without
\* tool access 1.5 mm from a bounding plane
C17_Witness ==
    /\ ContextUndercutRun
    /\ \E i \in ret.out.val.indices : mesh.faces[i].n[3] = 0
    /\ \E i \in 1..Len(mesh.faces) :
          /\ i \notin ret.out.val.indices
          /\ ~Accessible(mesh.faces[i])
          /\ NearBoundingPlane(mesh, i)

ContextSteepRun ==
    /\ ret.op = "analyze_steep_walls"
    /\ ret.use_context
    /\ ~Raised(ret.out)

\* C18: a face has tool access exactly when at least one of its six probe
\* directions is clear, or a ray cast fails for it; a face whose ray casts
\* fail is never flagged by the context-aware undercut and steep-wall
\* detectors
C18_ToolAccess ==
    (ContextUndercutRun \/ ContextSteepRun) =>
        \A i \in 1..Len(mesh.faces) :
            /\ analyze_face_context(i, mesh).has_tool_access = Accessible(mesh.faces[i])
            /\ mesh.faces[i].probe_fails => i \notin ret.out.val.indices

\* a context-aware undercut run on a mesh with an interior face whose ray
\* casts fail, a face with one clear direction whose nearest hit is not the
\* face itself, and a flagged face
C18_Witness ==
    /\ ContextUndercutRun
    /\ ret.out.val.indices # {}
    /\ \E i \in 1..Len(mesh.faces) :
          /\ mesh.faces[i].probe_fails
          /\ ~NearBoundingPlane(mesh, i)
          /\ ClearDirections(mesh.faces[i]) = {}
    /\ \E i \in 1..Len(mesh.faces) :
          /\ Cardinality(ClearDirections(mesh.faces[i])) = 1
          /\ \E d \in ClearDirections(mesh.faces[i]) :
                \E h \in mesh.faces[i].probe[d] : h < 500

\* C19: within one analyze_all() run every face is classified by
\* analyze_face_context at most once
C19_ClassifiedOnce ==
    (ret.op = "analyze_all" /\ ~Raised(ret.out)) =>
        \A i \in DOMAIN ret.classified : ret.classified[i] <= 1

InternalVolumeRun ==
    /\ ret.op = "analyze_internal_volumes"
    /\ mesh.is_watertight
    /\ ret.out.val.data.error = None

\* the openings test of the mode of the run
OpeningsDetected ==
    IF ret.use_context THEN ret.out.val.data.has_external_openings
                       ELSE check_external_openings(mesh)

\* C20: for a watertight mesh whose volumes were computed the
\* internal-volume severity is 0 when external openings are detected;
\* otherwise 2 for a volume ratio below 0.3, 1 from 0.3 and below the cutoff
\* (0.7 context-aware, 0.6 realistic), 0 from the cutoff; has_problem is
\* true exactly when the severity is above 0
C20_VolumeSeverity ==
    InternalVolumeRun =>
        LET r == ret.out.val
            actual == r.data.volume_ratio[1]
            convex == r.data.volume_ratio[2]
            cutoff10 == IF ret.use_context THEN 7 ELSE 6
        IN  /\ actual = mesh.volume /\ convex = mesh.convex_volume
            /\ OpeningsDetected => r.severity = 0
            /\ (~OpeningsDetected /\ 10 * actual < 3 * convex) => r.severity = 2
            /\ (~OpeningsDetected /\ 10 * actual >= 3 * convex
                                  /\ 10 * actual < cutoff10 * convex) => r.severity = 1
            /\ (~OpeningsDetected /\ 10 * actual >= cutoff10 * convex) => r.severity = 0
            /\ r.has_problem <=> r.severity > 0

\* a shell of volume ratio 0.6 without openings: minor in context-aware
\* mode, where the realistic mode reports nothing
C20_Witness ==
    /\ InternalVolumeRun
    /\ ret.use_context
    /\ ~OpeningsDetected
    /\ 10 * mesh.volume = 6 * mesh.convex_volume
    /\ ret.out.val.severity = 1
    /\ ret.out.val.has_problem
    /\ InternalVolumeRuns[mesh][FALSE].val.severity = 0
    /\ ~check_external_openings(mesh)

\* the number of vertices within tol of bounding plane b of an axis
NearPlane(m, axis, b, tol) ==
    Cardinality({i \in DOMAIN m.vertices :
                    Abs(m.vertices[i][axis] - Bounds(m)[b][axis]) < tol})

\* the largest such number over the six bounding planes
MostNearPlane(m, tol) ==
    Max({NearPlane(m, axis, b, tol) : axis \in 1..3, b \in 1..2})

OpeningsRun == ret.op = "check_external_openings"

ContextVolumeRun ==
    /\ ret.op = "analyze_internal_volumes"
    /\ ret.use_context
    /\ mesh.is_watertight
    /\ ret.out.val.data.error = None

\* C21 as claimed: the realistic test finds openings from 3 vertices
\* within 0.1 mm of one bounding plane, the context-aware test from 10% of
\* the vertices within 1 mm of one bounding plane
C21_FromThreeAndTenPercent ==
    /\ OpeningsRun => (ret.out.val <=> MostNearPlane(mesh, 1) >= 3)
    /\ ContextVolumeRun =>
          (ret.out.val.data.has_external_openings
              <=> 10 * MostNearPlane(mesh, 10) >= Len(mesh.vertices))

\* C21 as amended: the realistic test finds openings when more than 3
\* vertices lie within 0.1 mm of one bounding plane, the context-aware
\* test when more than 10% of the vertices lie within 1 mm of one
\* bounding plane
C21_AboveThreeAndTenPercent ==
    /\ OpeningsRun => (ret.out.val <=> MostNearPlane(mesh, 1) > 3)
    /\ ContextVolumeRun =>
          (ret.out.val.data.has_external_openings
              <=> 10 * MostNearPlane(mesh, 10) > Len(mesh.vertices))

\* exactly three vertices on a bounding plane: no openings found
C21_Witness ==
    /\ OpeningsRun
    /\ MostNearPlane(mesh, 1) = 3
    /\ ~ret.out.val

SmallFeatureRun == ret.op = "analyze_small_features"

\* the severity for nsmall qualifying edges among ns significant ones
SmallFeatureSeverity(nsmall, ns) ==
    IF ns = 0 THEN 0
    ELSE IF 100 * nsmall > 20 * ns THEN 2
    ELSE IF 100 * nsmall > 10 * ns THEN 1 ELSE 0

\* the edges shorter than the tool radius among a set of edges
BelowRadius(edges) ==
    {i \in edges : 4 * mesh.edges_sq[i] < ret.min_tool_diameter * ret.min_tool_diameter}

\* C22 as claimed: every edge of at least 0.5 mm is significant; severity 2
\* above 20% of significant edges below the tool radius, 1 above 10%,
\* else 0; no significant edge gives severity 0 without error
C22_SignificantFromHalfMm ==
    SmallFeatureRun =>
        LET significant == {i \in DOMAIN mesh.edges_sq : mesh.edges_sq[i] >= 25}
        IN  /\ ret.out.val.severity =
                  SmallFeatureSeverity(Cardinality(BelowRadius(significant)),
                                       Cardinality(significant))
            /\ ret.out.val.data.error = None

\* C22 as amended: the edges of at most 0.5 mm are excluded as noise and
\* every edge longer than 0.5 mm is significant; severity 2 above 20% of
\* significant edges below the tool radius, 1 above 10% and up to 20%,
\* else 0; no significant edge gives severity 0 without error
C22_SignificantAboveHalfMm ==
    SmallFeatureRun =>
        LET significant == {i \in DOMAIN mesh.edges_sq : mesh.edges_sq[i] > 25}
        IN  /\ ret.out.val.severity =
                  SmallFeatureSeverity(Cardinality(BelowRadius(significant)),
                                       Cardinality(significant))
            /\ ret.out.val.data.error = None
            /\ ret.out.val.has_problem <=> ret.out.val.severity > 0

\* three edges of exactly 0.5 mm beside eight long ones and nothing else
\* above the noise floor: severity 0
C22_Witness ==
    /\ SmallFeatureRun
    /\ ret.min_tool_diameter = 30
    /\ Cardinality({i \in DOMAIN mesh.edges_sq : mesh.edges_sq[i] = 25}) = 3
    /\ Cardinality({i \in DOMAIN mesh.edges_sq : mesh.edges_sq[i] > 25}) = 8
    /\ ret.out.val.severity = 0

\* the analyzer holds a small-features result computed with a tool of at
\* most 1 mm
TinyToolRun ==
    /\ "min_tool_diameter" \in DOMAIN config
    /\ config.min_tool_diameter <= 10
    /\ "small_features" \in DOMAIN results
    /\ "error" \notin DOMAIN results["small_features"]

\* C30: with min_tool_diameter of at most 1.0 mm the small-features entry
\* of the analyzer has severity 0 and has_problem false for every mesh, and
\* its penalty in the score is 0
C30_TinyToolNoSmallFeatures ==
    TinyToolRun =>
        /\ results["small_features"].severity = 0
        /\ ~results["small_features"].has_problem
        /\ results["small_features"].data.actual_small_features = 0
        /\ SeverityPenalty(results, "small_features", (0 :> 0) @@ (1 :> 50) @@ (2 :> 100)) = 0

\* a 1 mm tool on a mesh that has small features for the default 3 mm tool
C30_Witness ==
    /\ TinyToolRun
    /\ config.min_tool_diameter = 10
    /\ \E i \in DOMAIN mesh.edges_sq : mesh.edges_sq[i] > 25 /\ 4 * mesh.edges_sq[i] < 900
    /\ realistic_small_features(mesh, 30)[1] = 2
    /\ results["small_features"].severity = 0

\* the least distance of the centroid to the nearer bounding plane, over
\* the three axes, exceeds the classifier's 10 mm
DeepInside(m, i) ==
    \A a \in 1..3 :
        LET lo == Min({m.vertices[k][a] : k \in DOMAIN m.vertices})
            hi == Max({m.vertices[k][a] : k \in DOMAIN m.vertices})
        IN  m.faces[i].c[a] - lo > 100 /\ hi - m.faces[i].c[a] > 100

\* |normal.z| < sin(90 deg - angle): sin 20 deg = 0.3420, sin 10 deg = 0.1736,
\* the normal in tenths
SteeperThan(nz, angle) ==
    IF angle = 70 THEN 1000 * Abs(nz) < 3420 ELSE 1000 * Abs(nz) < 1736

\* C23: the context-aware steep-wall strategy flags exactly the faces with
\* |normal.z| < sin(90 deg - steep_angle_threshold) that are deep and have
\* no tool access; severity is high above 50 flagged faces, medium above
\* 20, else low; has_problem is true exactly for a positive count
C23_ContextSteepWalls ==
    ContextSteepRun =>
        LET r == ret.out.val
        IN  /\ \A i \in 1..Len(mesh.faces) :
                  i \in r.indices <=>
                      /\ SteeperThan(mesh.faces[i].n[3], ret.angle_threshold)
                      /\ DeepInside(mesh, i)
                      /\ ~Accessible(mesh.faces[i])
            /\ r.count = Cardinality(r.indices)
            /\ r.severity = (IF r.count > 50 THEN "high"
                             ELSE IF r.count > 20 THEN "medium" ELSE "low")
            /\ r.has_problem <=> r.count > 0

\* a run at 80 degrees that flags a wall and leaves unflagged a blocked
\* vertical face 8 mm above the bottom and a blocked wall leaning 11 degrees
C23_Witness ==
    /\ ContextSteepRun
    /\ ret.angle_threshold = 80
    /\ ret.out.val.has_problem
    /\ \E i \in 1..Len(mesh.faces) :
          /\ i \notin ret.out.val.indices
          /\ mesh.faces[i].n[3] = 0
          /\ ~DeepInside(mesh, i)
          /\ ~Accessible(mesh.faces[i])
    /\ \E i \in 1..Len(mesh.faces) :
          /\ i \notin ret.out.val.indices
          /\ mesh.faces[i].n[3] = 2
          /\ DeepInside(mesh, i)
          /\ ~Accessible(mesh.faces[i])

\* the analyzer ran the steep-wall detector with use_context_aware false
PlainSteepRun ==
    /\ ret.op = "analyze_single_function"
    /\ ret.fn = "steep_walls"
    /\ ~Raised(ret.out)
    /\ ~config.use_context_aware

\* the centroid is within 2 mm of one of the four vertical bounding planes
NearVerticalPlane(m, i) ==
    \E a \in 1..2 :
        LET lo == Min({m.vertices[k][a] : k \in DOMAIN m.vertices})
            hi == Max({m.vertices[k][a] : k \in DOMAIN m.vertices})
        IN  Abs(m.faces[i].c[a] - lo) < 20 \/ Abs(m.faces[i].c[a] - hi) < 20

\* the centroid is more than min_depth below the top bounding plane
BelowTop(m, i, min_depth) ==
    Max({m.vertices[k][3] : k \in DOMAIN m.vertices}) - m.faces[i].c[3] > min_depth

\* C24: with use_context_aware false the steep-wall detector flags only
\* steep faces deeper than min_depth below the top bounding plane and not
\* within 2 mm of a vertical bounding plane
C24_RealisticSteepWalls ==
    PlainSteepRun =>
        \A i \in ret.out.val.indices :
            /\ BelowTop(mesh, i, config.min_depth)
            /\ ~NearVerticalPlane(mesh, i)

\* the other faces whose centroid is closer than min_width to that of face i
CloserFaces(m, i, min_width) ==
    {j \in 1..Len(m.faces) \ {i} :
        LET u == m.faces[i].c
            v == m.faces[j].c
        IN  (u[1] - v[1]) * (u[1] - v[1]) + (u[2] - v[2]) * (u[2] - v[2])
              + (u[3] - v[3]) * (u[3] - v[3]) < min_width * min_width}

\* C25 as claimed: a face is flagged exactly when at least three other
\* face centroids lie closer than min_channel_width to its centroid
C25_ThreeOthersCloser ==
    NarrowChannelRun =>
        \A i \in 1..Len(mesh.faces) :
            i \in ret.out.val.indices
                <=> Cardinality(CloserFaces(mesh, i, ret.min_width)) >= 3

\* C25 as amended: the distance used is that to the 2nd-nearest centroid
\* not counting the face itself, so a face is flagged exactly when at
\* least two other face centroids lie closer than min_channel_width
C25_TwoOthersCloser ==
    NarrowChannelRun =>
        \A i \in 1..Len(mesh.faces) :
            i \in ret.out.val.indices
                <=> Cardinality(CloserFaces(mesh, i, ret.min_width)) >= 2

\* a flagged face with exactly two closer centroids beside an unflagged
\* face with exactly one
C25_Witness ==
    /\ NarrowChannelRun
    /\ \E i \in ret.out.val.indices :
          Cardinality(CloserFaces(mesh, i, ret.min_width)) = 2
    /\ \E i \in 1..Len(mesh.faces) :
          /\ i \notin ret.out.val.indices
          /\ Cardinality(CloserFaces(mesh, i, ret.min_width)) = 1

RayRun == ret.op = "analyze_deep_pockets" /\ ret.method = "ray"

\* the distance to the nearest intersection along the normal farther than
\* 0.1 mm; 0 without such a hit or when the ray cast fails
RayDepth(face) ==
    IF face.nray_fails \/ \A h \in face.nhits : h <= 1
    THEN 0
    ELSE CHOOSE h \in face.nhits : h > 1 /\ \A g \in face.nhits : g > 1 => h <= g

\* C26: the ray method measures for every face the distance to the nearest
\* intersection along its normal farther than 0.1 mm (0 without one, or
\* when the ray cast fails) and flags the face exactly when that depth
\* exceeds deep_pocket_threshold
C26_RayDepth ==
    RayRun =>
        /\ ret.out.val.data.error = None
        /\ \A i \in 1..Len(mesh.faces) :
              i \in ret.out.val.indices <=> RayDepth(mesh.faces[i]) > ret.depth_threshold

\* a 5 mm run that flags a face past a hit at 0 mm and a face past a hit at
\* exactly 0.1 mm, and flags neither the face whose ray cast fails nor the
\* faces whose only hit is at 0 mm
C26_Witness ==
    /\ RayRun
    /\ ret.depth_threshold = 50
    /\ \E i \in ret.out.val.indices : 0 \in mesh.faces[i].nhits
    /\ \E i \in ret.out.val.indices : 1 \in mesh.faces[i].nhits
    /\ \E i \in 1..Len(mesh.faces) :
          mesh.faces[i].nray_fails /\ i \notin ret.out.val.indices
    /\ \E i \in 1..Len(mesh.faces) :
          mesh.faces[i].nhits = {0} /\ i \notin ret.out.val.indices

\* C27: after a ray run max_depth is the largest depth measured over all
\* faces of the mesh, whether or not a face exceeded the threshold
C27_MaxDepthOverAllFaces ==
    RayRun =>
        ret.out.val.max_depth =
            Max({0} \cup {RayDepth(mesh.faces[i]) : i \in 1..Len(mesh.faces)})

\* the inward alignment of face i is above 0.3: dot(normal, -to_face) over
\* |to_face|, to_face measured from the mean of the vertices
TowardCentre(m, i) ==
    LET centre == [a \in 1..3 |->
                      SumSeq([k \in DOMAIN m.vertices |-> m.vertices[k][a]])
                          \div Len(m.vertices)]
        to_face == [a \in 1..3 |-> m.faces[i].c[a] - centre[a]]
        nd == - Dot(m.faces[i].n, to_face)
    IN  nd > 0 /\ nd * nd > 9 * Dot(to_face, to_face)

\* C28: the normal method flags exactly the faces whose normal points
\* toward the mesh centroid with alignment above 0.3 and records no error
C28_NormalMethod ==
    (ret.op = "analyze_deep_pockets" /\ ret.method = "normal") =>
        /\ ret.out.val.data.error = None
        /\ \A i \in 1..Len(mesh.faces) :
              i \in ret.out.val.indices <=> TowardCentre(mesh, i)
        /\ ret.out.val.has_problem <=> ret.out.val.count > 0

\* C29: a face classified deep is not external, and on the same mesh the
\* faces the context-aware steep-wall run flags are among those the
\* context-aware undercut run flags, so the steep-wall count is at most the
\* undercut count
C29_SteepWithinUndercuts ==
    ContextSteepRun =>
        LET undercuts == UndercutRuns[mesh][TRUE].val
        IN  /\ \A i \in 1..Len(mesh.faces) :
                  analyze_face_context(i, mesh).is_deep
                      => ~analyze_face_context(i, mesh).is_external
            /\ ret.out.val.indices \subseteq undercuts.indices
            /\ ret.out.val.count <= undercuts.count

\* a steep-wall run that flags some faces, fewer than the undercut run
\* flags, on a mesh with a blocked steep face that is external
C29_Witness ==
    /\ ContextSteepRun
    /\ ret.out.val.count > 0
    /\ ret.out.val.count < UndercutRuns[mesh][TRUE].val.count
    /\ \E i \in 1..Len(mesh.faces) :
          /\ SteeperThan(mesh.faces[i].n[3], ret.angle_threshold)
          /\ ~Accessible(mesh.faces[i])
          /\ NearBoundingPlane(mesh, i)

====
